---- MODULE Spec2Model ----
(***************************************************************************)
(* Graph construction and masked-dataset assembly of the L-Town utilities  *)
(* (Implementation/2_DataGeneration/L-Town/utils/utils.py).                *)
(*                                                                         *)
(* Conventions.  A one-dimensional array is a sequence; the Python index   *)
(* of position p is p-1.  A 2xE edge array is <<row0, row1>>, two          *)
(* sequences of length E.  A tensor [T, E, F] of edge attributes is a      *)
(* sequence over t of sequences over the edge axis of attribute tuples.    *)
(* Tensors that the code writes through views are kept in named buffers,   *)
(* and a view is a reference <<buffer, row>> into one of them.             *)
(***************************************************************************)
EXTENDS Integers, Sequences, FiniteSets, TLC

VARIABLES
    \* relabel_nodes (lines 157-166): arguments, locals, loop position
    rl_node_indices, rl_edge_indices, rl_node_idx, rl_edge_idx, rl_k, rl_pc,
    \* convert_to_bi_edges (lines 142-154): the caller's arguments and the result
    bi_edge_index, bi_edge_attr, bi_result, bi_pc,
    \* load_dataset / WDN_Dataset_IM (lines 278-329): the tensor buffers X
    \* (the caller's) and Y (the clone), the tensor as it was passed in, the
    \* sensors, the mask, the example list, the loop position, the example
    \* whose input the last step wrote through, and the number of later writes
    ld_heap, ld_F, ld_installed_sensors, ld_mask, ld_data, ld_i, ld_pc, ld_wr, ld_writes,
    \* create_graph (lines 169-261): the network read from the .inp file
    \* (node count, link endpoints as node positions, number of pipes), the
    \* locals of the function, the leak table's first Value, the stage
    \* reached and the stage that failed
    gr_n_nodes, gr_all_edge_indices, gr_n_lengths,
    gr_X, gr_node_indices_orig, gr_edge_indices_orig, gr_edge_attr_orig,
    gr_node_indices, gr_edge_indices, gr_edge_attr,
    gr_value, gr_anomalies_edge_idx, gr_anomalies_nodes_ids, gr_pc, gr_failed

relabelVars == <<rl_node_indices, rl_edge_indices, rl_node_idx, rl_edge_idx, rl_k, rl_pc>>
biVars == <<bi_edge_index, bi_edge_attr, bi_result, bi_pc>>
loadVars == <<ld_heap, ld_F, ld_installed_sensors, ld_mask, ld_data, ld_i, ld_pc, ld_wr, ld_writes>>

graphVars == <<gr_n_nodes, gr_all_edge_indices, gr_n_lengths,
               gr_X, gr_node_indices_orig, gr_edge_indices_orig, gr_edge_attr_orig,
               gr_node_indices, gr_edge_indices, gr_edge_attr,
               gr_value, gr_anomalies_edge_idx, gr_anomalies_nodes_ids, gr_pc, gr_failed>>

vars == <<relabelVars, biVars, loadVars, graphVars>>

\* a component that a specification does not run
RelabelOff ==
    /\ rl_node_indices = <<>> /\ rl_edge_indices = <<>> /\ rl_node_idx = <<>>
    /\ rl_edge_idx = <<>> /\ rl_k = 0 /\ rl_pc = "off"
BiOff ==
    /\ bi_edge_index = <<>> /\ bi_edge_attr = <<>> /\ bi_result = <<>> /\ bi_pc = "off"
LoadOff ==
    /\ ld_heap = <<>> /\ ld_F = <<>> /\ ld_installed_sensors = {} /\ ld_mask = <<>>
    /\ ld_data = <<>> /\ ld_i = 0 /\ ld_pc = "off" /\ ld_wr = -1 /\ ld_writes = 0
GraphOff ==
    /\ gr_n_nodes = 0 /\ gr_all_edge_indices = <<>> /\ gr_n_lengths = 0
    /\ gr_X = <<>> /\ gr_node_indices_orig = <<>> /\ gr_edge_indices_orig = <<>>
    /\ gr_edge_attr_orig = <<>> /\ gr_node_indices = <<>> /\ gr_edge_indices = <<>>
    /\ gr_edge_attr = <<>> /\ gr_value = <<>> /\ gr_anomalies_edge_idx = -1
    /\ gr_anomalies_nodes_ids = <<>> /\ gr_pc = "off" /\ gr_failed = ""

(***************************************************************************)
(* Bounds of the model.                                                    *)
(***************************************************************************)
MaxNodeIds == 2        \* longest node-id array given to relabel_nodes
MaxNodeId == 1         \* largest original node id given to relabel_nodes
MaxRelabelEdges == 1   \* most edge columns given to relabel_nodes
MaxBiEdges == 2        \* most edge columns given to convert_to_bi_edges
MaxBiNode == 1         \* largest node id in an edge given to convert_to_bi_edges
MaxBiSteps == 1        \* longest time axis of an edge_attr given to convert_to_bi_edges
MaxSteps == 2          \* most timesteps T of a feature tensor
MaxLoadNodes == 2      \* most nodes N of a feature tensor
MaxBase == 1           \* largest value of the first cell of a feature tensor
MaxWrites == 1         \* most writes a caller makes through get() after load
MaxPipes == 1          \* most pipes (links with a length) of a network
MaxGraphSteps == 1     \* timesteps kept of the pressure table
MaxDigits == 2         \* most digits of a leak Value

(***************************************************************************)
(* Array helpers.                                                          *)
(***************************************************************************)
Min(a, b) == IF a < b THEN a ELSE b
Max(a, b) == IF a > b THEN a ELSE b

\* np.arange(n)
arange(n) == [i \in 1..n |-> i - 1]

\* number of columns of a 2xE edge array
Cols(e) == Len(e[1])

\* all sequences over S of length 0..n
RECURSIVE SeqsUpTo(_, _)
SeqsUpTo(S, n) ==
    IF n = 0 THEN {<<>>}
    ELSE LET shorter == SeqsUpTo(S, n - 1)
         IN  shorter \cup {Append(s, x) : s \in {q \in shorter : Len(q) = n - 1}, x \in S}

\* all 2xE edge arrays over S with 0..n columns
EdgeArrays(S, n) ==
    {e \in SeqsUpTo(S, n) \X SeqsUpTo(S, n) : Len(e[1]) = Len(e[2])}

(***************************************************************************)
(* relabel_nodes(node_indices, edge_indices)                               *)
(***************************************************************************)
\* np.where(node_indices >= 0)[0]: the Python indices of the non-negative
\* entries, ascending.
node_idx_of(node_indices) ==
    SelectSeq(arange(Len(node_indices)), LAMBDA i : node_indices[i + 1] >= 0)

\* zip(node_idx, node_indices) stops at the shorter of the two.
ZipLen(node_idx, node_indices) == Min(Len(node_idx), Len(node_indices))

\* A slip of the loop body: the comparison reads the array being rewritten,
\* that is, sequential in-place substitution.
where_inplace(edge_indices, index, idx, edge_idx) ==
    [r \in 1..2 |->
        [p \in 1..Cols(edge_idx) |->
            IF edge_idx[r][p] = index THEN idx ELSE edge_idx[r][p]]]

\* A slip of the loop body: >= for ==.
where_ge(edge_indices, index, idx, edge_idx) ==
    [r \in 1..2 |->
        [p \in 1..Cols(edge_idx) |->
            IF edge_indices[r][p] >= index THEN idx ELSE edge_idx[r][p]]]

\* np.where(edge_indices == index, idx, edge_idx): the comparison reads the
\* caller's edge_indices, the other values come from the working copy.
where_eq(edge_indices, index, idx, edge_idx) ==
    [r \in 1..2 |->
        [p \in 1..Cols(edge_idx) |->
            IF edge_indices[r][p] = index THEN idx ELSE edge_idx[r][p]]]

\* One pass of "for idx, index in zip(node_idx, node_indices)", the k-th.
\* The result is built strictly (SubSeq) so that long loops do not nest.
relabel_body(k, node_idx, node_indices, edge_indices, edge_idx) ==
    LET w == where_eq(edge_indices, node_indices[k], node_idx[k], edge_idx)
    IN  <<SubSeq(w[1], 1, Cols(edge_idx)), SubSeq(w[2], 1, Cols(edge_idx))>>

\* The passes lo..hi of the loop, in order.  The range is split in two only
\* to keep the evaluation shallow; the passes run in the loop's order.
RECURSIVE relabel_loop(_, _, _, _, _, _)
relabel_loop(lo, hi, node_idx, node_indices, edge_indices, edge_idx) ==
    IF lo > hi THEN edge_idx
    ELSE IF lo = hi THEN relabel_body(lo, node_idx, node_indices, edge_indices, edge_idx)
    ELSE LET mid == (lo + hi) \div 2
             first == relabel_loop(lo, mid, node_idx, node_indices, edge_indices, edge_idx)
         IN  IF Cols(first) >= 0
             THEN relabel_loop(mid + 1, hi, node_idx, node_indices, edge_indices, first)
             ELSE first

\* relabel_nodes as a whole: (node_idx, edge_idx).
relabel_nodes(node_indices, edge_indices) ==
    LET node_idx == node_idx_of(node_indices)
    IN  [node_idx |-> node_idx,
         edge_idx |-> relabel_loop(1, ZipLen(node_idx, node_indices),
                                   node_idx, node_indices, edge_indices, edge_indices)]

\* Node-id arrays: negative entries are the sentinel, the ids proper are
\* pairwise different.
NodeIdArrays ==
    {s \in SeqsUpTo(-1..MaxNodeId, MaxNodeIds) :
        /\ Len(s) >= 1
        /\ \A p, q \in 1..Len(s) : (p # q /\ s[p] >= 0) => s[p] # s[q]}

RelabelInit ==
    /\ BiOff /\ LoadOff /\ GraphOff
    /\ rl_node_indices \in NodeIdArrays
    /\ rl_edge_indices \in EdgeArrays(-1..MaxNodeId, MaxRelabelEdges)
    /\ rl_node_idx = <<>>
    /\ rl_edge_idx = <<>>
    /\ rl_k = 0
    /\ rl_pc = "call"

\* lines 160-161
relabel_enter ==
    /\ rl_pc = "call"
    /\ rl_node_idx' = node_idx_of(rl_node_indices)
    /\ rl_edge_idx' = rl_edge_indices
    /\ rl_k' = 0
    /\ rl_pc' = "loop"
    /\ UNCHANGED <<rl_node_indices, rl_edge_indices, biVars, loadVars, graphVars>>

\* lines 162-163, one pass
relabel_iter ==
    /\ rl_pc = "loop"
    /\ rl_k < ZipLen(rl_node_idx, rl_node_indices)
    /\ rl_edge_idx' = relabel_body(rl_k + 1, rl_node_idx, rl_node_indices,
                                   rl_edge_indices, rl_edge_idx)
    /\ rl_k' = rl_k + 1
    /\ UNCHANGED <<rl_node_indices, rl_edge_indices, rl_node_idx, rl_pc, biVars, loadVars, graphVars>>

\* lines 164-166
relabel_return ==
    /\ rl_pc = "loop"
    /\ rl_k = ZipLen(rl_node_idx, rl_node_indices)
    /\ rl_pc' = "returned"
    /\ UNCHANGED <<rl_node_indices, rl_edge_indices, rl_node_idx, rl_edge_idx, rl_k,
                   biVars, loadVars, graphVars>>

RelabelNext == relabel_enter \/ relabel_iter \/ relabel_return

SpecRelabel == RelabelInit /\ [][RelabelNext]_vars

(***************************************************************************)
(* Properties of relabel_nodes.                                            *)
(***************************************************************************)
\* the non-sentinel ids of the node list
NonSentinelIds == {rl_node_indices[p] : p \in {q \in 1..Len(rl_node_indices) : rl_node_indices[q] >= 0}}

\* the node-list entries the loop pairs with a compact id: the first
\* ZipLen entries, whatever their sign
PairedIds == {rl_node_indices[j] : j \in 1..ZipLen(rl_node_idx, rl_node_indices)}

\* the endpoints of the caller's edge array
Endpoints == {rl_edge_indices[r][p] : r \in 1..2, p \in 1..Cols(rl_edge_indices)}

\* The mapping the loop has fixed after its first k passes, applied to one
\* original id v by lookup: the compact id paired with v (the last pairing
\* when a sentinel value is paired twice), v itself when v is not paired.
Lookup(k, v) ==
    LET hits == {j \in 1..k : rl_node_indices[j] = v}
    IN  IF hits = {} THEN v
        ELSE rl_node_idx[CHOOSE j \in hits : \A i \in hits : i <= j]

\* C4: for a node-id array whose negative entries are the sentinel and an
\* edge array whose endpoints are all non-sentinel ids of the node array,
\* the returned node list has as many entries as there are non-sentinel
\* ids, and every returned endpoint lies in [0, that length).
C4_RelabelRange ==
    (rl_pc = "returned" /\ Endpoints \subseteq NonSentinelIds) =>
        /\ Len(rl_node_idx) = Cardinality({q \in 1..Len(rl_node_indices) : rl_node_indices[q] >= 0})
        /\ \A r \in 1..2, p \in 1..Cols(rl_edge_idx) :
               0 <= rl_edge_idx[r][p] /\ rl_edge_idx[r][p] < Len(rl_node_idx)

C10_TranslatedByLookup ==
    rl_pc \in {"loop", "returned"} =>
        \A r \in 1..2, p \in 1..Cols(rl_edge_indices) :
            rl_edge_idx[r][p] = Lookup(rl_k, rl_edge_indices[r][p])

\* a compact id coincides with an original id that is translated later, and
\* both original ids are endpoints
C10_Witness ==
    /\ rl_pc = "returned"
    /\ \E k, j \in 1..ZipLen(rl_node_idx, rl_node_indices) :
           /\ k < j
           /\ rl_node_idx[k] = rl_node_indices[j]
           /\ rl_node_indices[k] # rl_node_indices[j]
           /\ {rl_node_indices[k], rl_node_indices[j]} \subseteq Endpoints

(***************************************************************************)
(* convert_to_bi_edges(edge_index, edge_attr=None)                         *)
(***************************************************************************)
\* A slip of line 146: edge_index_swap = edge_index, a second name for the
\* caller's tensor instead of a clone of it.
edge_index_swap_alias == "edge_index"

\* line 146, edge_index.clone(): the swapped copy lives in a buffer of its own
edge_index_swap_buffer == "edge_index_swap"

\* an optional argument: None, or a value
None == [none |-> TRUE]
Some(v) == [none |-> FALSE, value |-> v]

\* The function as a whole.  Both tensors are kept in a small heap so that
\* the row assignments of lines 147-148 go through the name edge_index_swap
\* to whatever buffer it denotes.  The result carries the caller's
\* edge_index as it is after the call.
convert_to_bi_edges(edge_index, edge_attr) ==
    LET swap == edge_index_swap_buffer
        h0 == [edge_index |-> edge_index, edge_index_swap |-> edge_index]
        h1 == [h0 EXCEPT ![swap] = <<h0.edge_index[2], h0[swap][2]>>]
        h2 == [h1 EXCEPT ![swap] = <<h1[swap][1], h1.edge_index[1]>>]
    IN  [edge_index |-> h2.edge_index,
         edge_index_bi |-> <<h2.edge_index[1] \o h2[swap][1],
                             h2.edge_index[2] \o h2[swap][2]>>,
         edge_attr_bi |-> IF edge_attr.none THEN None
                          ELSE Some([t \in 1..Len(edge_attr.value) |->
                                        edge_attr.value[t] \o edge_attr.value[t]])]

\* attribute values of an edge
AttrVals == {10, 20}

\* edge_attr tensors [T, E] with T in 1..MaxBiSteps
EdgeAttrs(E) ==
    UNION {[1..T -> [1..E -> AttrVals]] : T \in 1..MaxBiSteps}

BiInit ==
    /\ RelabelOff /\ LoadOff /\ GraphOff
    /\ bi_edge_index \in EdgeArrays(0..MaxBiNode, MaxBiEdges)
    /\ bi_edge_attr \in {None} \cup {Some(a) : a \in EdgeAttrs(Cols(bi_edge_index))}
    /\ bi_result = <<>>
    /\ bi_pc = "call"

\* lines 142-154
convert_to_bi_edges_call ==
    /\ bi_pc = "call"
    /\ LET res == convert_to_bi_edges(bi_edge_index, bi_edge_attr)
       IN  /\ bi_edge_index' = res.edge_index
           /\ bi_result' = [edge_index_bi |-> res.edge_index_bi, edge_attr_bi |-> res.edge_attr_bi]
    /\ bi_pc' = "returned"
    /\ UNCHANGED <<bi_edge_attr, relabelVars, loadVars, graphVars>>

BiNext == convert_to_bi_edges_call

SpecBi == BiInit /\ [][BiNext]_vars

\* C5: the call returns 2E edges, the E input edges with their attributes
\* first, then edge i reversed at column E+i with the attributes of edge i,
\* and leaves the caller's edge_index as it was.
C5_BiEdges ==
    [][bi_pc' = "returned" =>
        LET E == Cols(bi_edge_index)
            out == bi_result'.edge_index_bi
            attr == bi_result'.edge_attr_bi
        IN  /\ Cols(out) = 2 * E /\ Len(out[2]) = 2 * E
            /\ \A i \in 1..E :
                   /\ out[1][i] = bi_edge_index[1][i] /\ out[2][i] = bi_edge_index[2][i]
                   /\ out[1][E + i] = bi_edge_index[2][i] /\ out[2][E + i] = bi_edge_index[1][i]
            /\ bi_edge_attr.none = attr.none
            /\ ~ bi_edge_attr.none =>
                   /\ Len(attr.value) = Len(bi_edge_attr.value)
                   /\ \A t \in 1..Len(attr.value) :
                          /\ Len(attr.value[t]) = 2 * E
                          /\ \A i \in 1..E :
                                 /\ attr.value[t][i] = bi_edge_attr.value[t][i]
                                 /\ attr.value[t][E + i] = bi_edge_attr.value[t][i]
            /\ bi_edge_index' = bi_edge_index]_vars

\* a call on two edges that differ, one of them not a loop, with attributes
\* that differ
C5_Witness ==
    /\ bi_pc = "returned"
    /\ Cols(bi_edge_index) = 2
    /\ bi_edge_index[1][1] # bi_edge_index[2][1]
    /\ <<bi_edge_index[1][1], bi_edge_index[2][1]>> # <<bi_edge_index[1][2], bi_edge_index[2][2]>>
    /\ ~ bi_edge_attr.none
    /\ bi_edge_attr.value[1][1] # bi_edge_attr.value[1][2]
    /\ Cols(bi_result.edge_index_bi) = 4
    /\ bi_result.edge_index_bi[1][3] = bi_edge_index[2][1]

(***************************************************************************)
(* load_dataset and WDN_Dataset_IM.load / get                              *)
(***************************************************************************)
\* the values a caller writes through an example after load
WriteVals == {0, 99}

\* the channel counts create_graph produces (lines 210, 213)
FeatureChannels == {1, 2}

\* a feature tensor [T, N, C] whose cells all differ
FeatureTensor(T, N, C, base) ==
    [t \in 1..T |-> [n \in 1..N |-> [c \in 1..C |->
        base + ((t - 1) * N + (n - 1)) * C + (c - 1)]]]

\* a view <<buffer, idx>> is row idx (a Python index) of a buffer
Deref(heap, ref) == heap[ref[1]][ref[2] + 1]

\* line 306, x = X[idx, :, :]: a view into the caller's tensor
input_view(idx) == <<"X", idx>>

\* A slip of line 302: Y = X, a second name for the caller's tensor.
target_view_aliased(idx) == <<"X", idx>>

\* line 307, y = Y[idx, :, :]: a view into the clone made at line 302
target_view(idx) == <<"Y", idx>>

\* A slip of line 313: the masking is left out.
zero_no_rows(rows, mask) == rows

\* A slip of line 313: the rows of the installed sensors are zeroed.
zero_rows_of_sensors(rows, mask) ==
    [n \in 1..Len(rows) |->
        IF mask[n] # 0 THEN [c \in 1..Len(rows[n]) |-> 0] ELSE rows[n]]

\* line 313, x[mask[:,0] == 0, :] = 0, on the rows of one timestep
zero_unmasked_rows(rows, mask) ==
    [n \in 1..Len(rows) |->
        IF mask[n] = 0 THEN [c \in 1..Len(rows[n]) |-> 0] ELSE rows[n]]

LoadInit ==
    /\ RelabelOff /\ BiOff /\ GraphOff
    /\ \E T \in 1..MaxSteps, N \in 1..MaxLoadNodes, C \in FeatureChannels, base \in 0..MaxBase :
           /\ ld_heap = [X |-> FeatureTensor(T, N, C, base), Y |-> <<>>]
           /\ ld_installed_sensors \in SUBSET (0..(N - 1))
    /\ ld_F = <<>>
    /\ ld_mask = <<>>
    /\ ld_data = <<>>
    /\ ld_i = 0
    /\ ld_pc = "call"
    /\ ld_wr = -1
    /\ ld_writes = 0

\* lines 323-327 and 301-302: the mask, the empty list, the clone.  n_nodes
\* is the node count of X.
load_dataset ==
    /\ ld_pc = "call"
    /\ ld_mask' = [n \in 1..Len(ld_heap.X[1]) |-> IF (n - 1) \in ld_installed_sensors THEN 1 ELSE 0]
    /\ ld_data' = <<>>
    /\ ld_heap' = [ld_heap EXCEPT !.Y = ld_heap.X]
    /\ ld_F' = ld_heap.X
    /\ ld_i' = 0
    /\ ld_pc' = "loop"
    /\ UNCHANGED <<ld_installed_sensors, ld_wr, ld_writes, relabelVars, biVars, graphVars>>

\* lines 304-315, one pass: _data_list is np.arange(X.shape[0])
load_body ==
    /\ ld_pc = "loop"
    /\ ld_i < Len(ld_heap.X)
    /\ LET idx == ld_i
           wdn_graph == [x |-> input_view(idx), y |-> target_view(idx),
                         edge_attr |-> <<"edge_attr", idx>>, edge_index |-> "edge_indices"]
       IN  /\ ld_heap' = [ld_heap EXCEPT ![wdn_graph.x[1]][idx + 1] =
                              zero_unmasked_rows(Deref(ld_heap, wdn_graph.x), ld_mask)]
           /\ ld_data' = Append(ld_data, wdn_graph)
           /\ ld_wr' = idx
    /\ ld_i' = ld_i + 1
    /\ UNCHANGED <<ld_F, ld_installed_sensors, ld_mask, ld_pc, ld_writes, relabelVars, biVars, graphVars>>

\* lines 316 and 329
load_return ==
    /\ ld_pc = "loop"
    /\ ld_i = Len(ld_heap.X)
    /\ ld_pc' = "loaded"
    /\ ld_wr' = -1
    /\ UNCHANGED <<ld_heap, ld_F, ld_installed_sensors, ld_mask, ld_data, ld_i, ld_writes,
                   relabelVars, biVars, graphVars>>

\* lines 295-297 and a caller's write: get(idx).x[n, c] = v
get_write ==
    /\ ld_pc = "loaded"
    /\ ld_writes < MaxWrites
    /\ \E idx \in 0..(Len(ld_data) - 1) :
         LET ref == ld_data[idx + 1].x
         IN  \E n \in 1..Len(Deref(ld_heap, ref)), v \in WriteVals :
               \E c \in 1..Len(Deref(ld_heap, ref)[n]) :
                 /\ ld_heap' = [ld_heap EXCEPT ![ref[1]][ref[2] + 1][n][c] = v]
                 /\ ld_wr' = idx
    /\ ld_writes' = ld_writes + 1
    /\ UNCHANGED <<ld_F, ld_installed_sensors, ld_mask, ld_data, ld_i, ld_pc, relabelVars, biVars, graphVars>>

LoadNext == load_dataset \/ load_body \/ load_return \/ get_write

SpecLoad == LoadInit /\ [][LoadNext]_vars

\* what example t (a Python index) shows as input and as target
Input(t) == Deref(ld_heap, ld_data[t + 1].x)
Target(t) == Deref(ld_heap, ld_data[t + 1].y)

Zeros(C) == [c \in 1..C |-> 0]

\* C1: when load returns there is one example per timestep; its input row n
\* is zero in every channel when n has no installed sensor and the original
\* F[t, n] when it has one, and its target row n is the original F[t, n].
C1_MaskedInputFullTarget ==
    (ld_pc = "loaded" /\ ld_writes = 0) =>
        /\ Len(ld_data) = Len(ld_F)
        /\ \A t \in 0..(Len(ld_F) - 1) :
               /\ Len(Input(t)) = Len(ld_F[t + 1])
               /\ \A n \in 1..Len(ld_F[t + 1]) :
                      /\ Input(t)[n] = IF (n - 1) \in ld_installed_sensors
                                       THEN ld_F[t + 1][n]
                                       ELSE Zeros(Len(ld_F[t + 1][n]))
                      /\ Target(t)[n] = ld_F[t + 1][n]

\* two timesteps, a node with a sensor and a node without whose original
\* values are not zero
C1_Witness ==
    /\ ld_pc = "loaded" /\ ld_writes = 0
    /\ Len(ld_data) = 2
    /\ \E n, m \in 1..Len(ld_F[2]) :
           /\ (n - 1) \in ld_installed_sensors
           /\ (m - 1) \notin ld_installed_sensors
           /\ ld_F[2][m] # Zeros(Len(ld_F[2][m]))
           /\ Input(1)[m] = Zeros(Len(ld_F[2][m]))
           /\ Input(1)[n] = ld_F[2][n]

\* C2: a step that writes through the input of example t (the zeroing of
\* line 313, or a caller's later write) leaves every target equal to the
\* original timestep, and leaves the input of every other example as it was.
C2_InputWritesAreLocal ==
    [][ld_wr' # -1 =>
        /\ \A t \in 0..(Len(ld_data') - 1) : (Target(t))' = ld_F'[t + 1]
        /\ \A t \in 0..(Len(ld_data) - 1) :
               /\ (Target(t))' = Target(t)
               /\ t # ld_wr' => (Input(t))' = Input(t)]_vars

\* a caller's write changed the input of one example while another exists
C2_Witness ==
    /\ ld_pc = "loaded" /\ ld_writes >= 1 /\ ld_wr # -1
    /\ Len(ld_data) >= 2
    /\ \E n \in 1..Len(Input(ld_wr)) : \E c \in 1..Len(Input(ld_wr)[n]) :
           Input(ld_wr)[n][c] = 99

n_no_length == 4
\* lines 226-231: the last nodes are the water sources
n_sources == 3
\* lines 233-238: the link 53 -> 342 stands for the path 53 -> 784 -> 342
link_start == 53
link_end == 342
link_via == 784

\* s[:-k]
DropLast(s, k) == SubSeq(s, 1, Max(Len(s) - k, 0))

\* the positions 1..n, ascending; a boolean mask keeps those that pass it
Indices(n) == [i \in 1..n |-> i]

\* e[:, keep] on a 2xE edge array and a[:, keep, :] on an attribute tensor,
\* keep given as the ascending positions kept
TakeCols(e, kept) ==
    <<[k \in 1..Len(kept) |-> e[1][kept[k]]], [k \in 1..Len(kept) |-> e[2][kept[k]]]>>
TakeAttr(a, kept) ==
    [t \in 1..Len(a) |-> [k \in 1..Len(kept) |-> a[t][kept[k]]]]

\* the attributes wntr reports: a length per pipe, a diameter per pipe and
\* per PRV (the pump has neither)
edge_lengths(n_lengths) == [i \in 1..n_lengths |-> 10 * i]
edge_dias(n_lengths) == [i \in 1..(n_lengths + n_no_length - 1) |-> 100 + i]

\* lines 220-223: [T, n_edges, 2], (length, diameter) per edge
edge_attr_orig_of(T, n_lengths) ==
    [t \in 1..T |->
        [e \in 1..(n_lengths + n_no_length) |->
            IF e <= n_lengths THEN <<edge_lengths(n_lengths)[e], edge_dias(n_lengths)[e]>>
            ELSE IF e = n_lengths + 1 THEN <<0, 0>>
            ELSE <<0, edge_dias(n_lengths)[e - 1]>>]]

\* A slip of line 248: [-4:] for [-4:-1].
prv_mask_last_four(M) == {e \in 1..M : e >= Max(M - 4, 0) + 1}

\* line 248, the slice [-4:-1] of an axis of length M, as positions
prv_mask_positions(M) == {e \in 1..M : e >= Max(M - 4, 0) + 1 /\ e <= M - 1}

\* decimal digits and Python's int() on a string of them
DecimalDigits == <<"0", "1", "2", "3", "4", "5", "6", "7", "8", "9">>
IsDigit(ch) == \E i \in 1..10 : DecimalDigits[i] = ch
DigitOf(ch) == (CHOOSE i \in 1..10 : DecimalDigits[i] = ch) - 1

RECURSIVE Decimal(_)
Decimal(ds) ==
    IF ds = <<>> THEN 0
    ELSE 10 * Decimal(SubSeq(ds, 1, Len(ds) - 1)) + DigitOf(ds[Len(ds)])

\* int(s): a ValueError on the empty string and on any character that is
\* not a digit (the characters here are letters and digits)
py_int(chars) ==
    IF chars # <<>> /\ \A i \in 1..Len(chars) : IsDigit(chars[i])
    THEN [ok |-> TRUE, value |-> Decimal(chars)]
    ELSE [ok |-> FALSE]

\* A slip of line 255: the one-based index is used as it is.
anomalies_edge_idx_one_based(value) ==
    LET n == py_int(IF value = <<>> THEN <<>> ELSE Tail(value))
    IN  IF n.ok THEN [ok |-> TRUE, idx |-> n.value] ELSE [ok |-> FALSE]

\* line 255: int("".join(list(Value)[1:])) - 1
anomalies_edge_idx(value) ==
    LET n == py_int(IF value = <<>> THEN <<>> ELSE Tail(value))
    IN  IF n.ok THEN [ok |-> TRUE, idx |-> n.value - 1] ELSE [ok |-> FALSE]

\* a[:, idx] on an axis of length E: an IndexError outside -E..E-1
PyIndex(E, idx) ==
    IF 0 <= idx /\ idx < E THEN [ok |-> TRUE, pos |-> idx + 1]
    ELSE IF -E <= idx /\ idx < 0 THEN [ok |-> TRUE, pos |-> E + idx + 1]
    ELSE [ok |-> FALSE]

\* The networks: their node counts, and the links a network is made of.
\* At 785 nodes node 784 is a source, at 788 it is not; a network of 345
\* nodes has no node 784.
NodeCounts == {345, 785, 788}
Links == {<<0, link_start>>, <<link_start, link_via>>, <<link_via, link_end>>}

\* The first Value of the leak table: a prefix of letters, then digits.
LeakPrefixes == {<<"L">>, <<"L", "K">>}
LeakDigitChars == {"0", "1", "5"}
LeakValues ==
    {pre \o ds : pre \in LeakPrefixes,
                 ds \in {d \in SeqsUpTo(LeakDigitChars, MaxDigits) : d # <<>>}}

GraphInit ==
    /\ RelabelOff /\ BiOff /\ LoadOff
    /\ gr_n_nodes \in NodeCounts
    /\ gr_n_lengths \in 0..MaxPipes
    /\ \E ls \in [1..(gr_n_lengths + n_no_length) ->
                     {l \in Links : l[1] < gr_n_nodes /\ l[2] < gr_n_nodes}] :
           gr_all_edge_indices = <<[e \in 1..Len(ls) |-> ls[e][1]], [e \in 1..Len(ls) |-> ls[e][2]]>>
    /\ gr_X = <<>> /\ gr_node_indices_orig = <<>> /\ gr_edge_indices_orig = <<>>
    /\ gr_edge_attr_orig = <<>> /\ gr_node_indices = <<>> /\ gr_edge_indices = <<>>
    /\ gr_edge_attr = <<>> /\ gr_value = <<>> /\ gr_anomalies_edge_idx = -1
    /\ gr_anomalies_nodes_ids = <<>> /\ gr_pc = "call" /\ gr_failed = ""

graphInputs == <<gr_n_nodes, gr_all_edge_indices, gr_n_lengths>>
graphOrig == <<gr_node_indices_orig, gr_edge_indices_orig, gr_edge_attr_orig>>
graphAnomaly == <<gr_value, gr_anomalies_edge_idx, gr_anomalies_nodes_ids>>
graphOthers == <<relabelVars, biVars, loadVars>>

\* lines 182-223: the node indices are the row index of nodes_df, the
\* features take the shape [T, n_nodes, C] (C is 2 with _demands, else 1),
\* the edges are relabeled and the attribute tensor is filled.  X is kept
\* as its shape.
create_graph_relabel ==
    /\ gr_pc = "call"
    /\ LET node_indices == arange(gr_n_nodes)
           rel == relabel_nodes(node_indices, gr_all_edge_indices)
       IN  /\ gr_node_indices' = node_indices
           /\ gr_node_indices_orig' = rel.node_idx
           /\ gr_edge_indices_orig' = rel.edge_idx
    /\ gr_edge_attr_orig' = edge_attr_orig_of(MaxGraphSteps, gr_n_lengths)
    /\ gr_pc' = "relabeled"
    /\ UNCHANGED <<graphInputs, gr_edge_indices, gr_edge_attr, graphAnomaly, gr_failed, graphOthers>>
    /\ \E demands \in BOOLEAN :
           gr_X' = <<MaxGraphSteps, gr_n_nodes, IF demands THEN 2 ELSE 1>>

\* lines 226-229
drop_source_side ==
    /\ gr_pc = "relabeled"
    /\ LET keep == SelectSeq(Indices(Cols(gr_edge_indices_orig)),
                             LAMBDA p : gr_edge_indices_orig[1][p] < gr_n_nodes - n_sources)
       IN  /\ gr_edge_attr' = TakeAttr(gr_edge_attr_orig, keep)
           /\ gr_edge_indices' = TakeCols(gr_edge_indices_orig, keep)
    /\ gr_X' = <<gr_X[1], Max(gr_X[2] - n_sources, 0), gr_X[3]>>
    /\ gr_node_indices' = DropLast(gr_node_indices_orig, n_sources)
    /\ gr_pc' = "pruned_source"
    /\ UNCHANGED <<graphInputs, graphOrig, graphAnomaly, gr_failed, graphOthers>>

\* lines 230-231
drop_target_side ==
    /\ gr_pc = "pruned_source"
    /\ LET keep == SelectSeq(Indices(Cols(gr_edge_indices)),
                             LAMBDA p : gr_edge_indices[2][p] < gr_n_nodes - n_sources)
       IN  /\ gr_edge_attr' = TakeAttr(gr_edge_attr, keep)
           /\ gr_edge_indices' = TakeCols(gr_edge_indices, keep)
    /\ gr_pc' = "pruned_target"
    /\ UNCHANGED <<graphInputs, graphOrig, gr_X, gr_node_indices, graphAnomaly, gr_failed, graphOthers>>

\* lines 233-244.  The sum of line 242 broadcasts the two selections along
\* the edge axis and is assigned to as many columns as edges 53 -> 784 were
\* found: a RuntimeError unless the edges 784 -> 342 are as many, or one.
append_link ==
    /\ gr_pc = "pruned_target"
    /\ gr_edge_indices' = <<Append(gr_edge_indices[1], link_start),
                            Append(gr_edge_indices[2], link_end)>>
    /\ LET E == Cols(gr_edge_indices_orig)
           ea_idx_out == SelectSeq(Indices(E),
                             LAMBDA p : /\ gr_edge_indices_orig[1][p] = link_start
                                                 /\ gr_edge_indices_orig[2][p] = link_via)
           ea_idx_in == SelectSeq(Indices(E),
                             LAMBDA p : /\ gr_edge_indices_orig[1][p] = link_via
                                                /\ gr_edge_indices_orig[2][p] = link_end)
           out == TakeAttr(gr_edge_attr_orig, ea_idx_out)
           in == TakeAttr(gr_edge_attr_orig, ea_idx_in)
           k_out == Len(ea_idx_out)
           k_in == Len(ea_idx_in)
           edge_attr_1 ==
               [t \in 1..Len(out) |->
                   [j \in 1..k_out |->
                       LET i == IF k_in = 1 THEN 1 ELSE j
                       IN  <<out[t][j][1] + in[t][i][1], out[t][j][2] + in[t][i][2]>>]]
       IN  IF k_in = k_out \/ k_in = 1
           THEN /\ gr_edge_attr' = [t \in 1..Len(gr_edge_attr) |-> gr_edge_attr[t] \o edge_attr_1[t]]
                /\ gr_pc' = "appended"
                /\ UNCHANGED gr_failed
           ELSE /\ gr_pc' = "error"
                /\ gr_failed' = "append_link"
                /\ UNCHANGED gr_edge_attr
    /\ UNCHANGED <<graphInputs, graphOrig, gr_X, gr_node_indices, graphAnomaly, graphOthers>>

\* lines 247-249: torch.cat along the last axis needs the edge axes equal
add_prv_mask ==
    /\ gr_pc = "appended"
    /\ LET M == Cols(gr_edge_indices)
           edge_attr_add == [t \in 1..gr_X[1] |->
                                [e \in 1..M |-> IF e \in prv_mask_positions(M) THEN 1 ELSE 0]]
       IN  IF \A t \in 1..Len(gr_edge_attr) : Len(gr_edge_attr[t]) = M
           THEN /\ gr_edge_attr' = [t \in 1..Len(gr_edge_attr) |->
                                       [e \in 1..M |-> Append(gr_edge_attr[t][e], edge_attr_add[t][e])]]
                /\ gr_pc' = "masked"
                /\ UNCHANGED gr_failed
           ELSE /\ gr_pc' = "error"
                /\ gr_failed' = "add_prv_mask"
                /\ UNCHANGED gr_edge_attr
    /\ UNCHANGED <<graphInputs, graphOrig, gr_X, gr_node_indices, gr_edge_indices,
                   graphAnomaly, graphOthers>>

\* line 252
bidirectional ==
    /\ gr_pc = "masked"
    /\ LET res == convert_to_bi_edges(gr_edge_indices, Some(gr_edge_attr))
       IN  /\ gr_edge_indices' = res.edge_index_bi
           /\ gr_edge_attr' = res.edge_attr_bi.value
    /\ gr_pc' = "bi"
    /\ UNCHANGED <<graphInputs, graphOrig, gr_X, gr_node_indices, graphAnomaly, gr_failed, graphOthers>>

\* lines 254-256: a ValueError from int(), an IndexError from the column
resolve_anomaly ==
    /\ gr_pc = "bi"
    /\ \E value \in LeakValues :
         LET parsed == anomalies_edge_idx(value)
             col == IF parsed.ok THEN PyIndex(Cols(gr_edge_indices_orig), parsed.idx)
                    ELSE [ok |-> FALSE]
         IN  /\ gr_value' = value
             /\ IF col.ok
                THEN /\ gr_anomalies_edge_idx' = parsed.idx
                     /\ gr_anomalies_nodes_ids' = <<gr_edge_indices_orig[1][col.pos],
                                                    gr_edge_indices_orig[2][col.pos]>>
                     /\ gr_pc' = "resolved"
                     /\ UNCHANGED gr_failed
                ELSE /\ gr_pc' = "error"
                     /\ gr_failed' = "resolve_anomaly"
                     /\ UNCHANGED <<gr_anomalies_edge_idx, gr_anomalies_nodes_ids>>
    /\ UNCHANGED <<graphInputs, graphOrig, gr_X, gr_node_indices, gr_edge_indices, gr_edge_attr,
                   graphOthers>>

\* lines 260-261
return_graph ==
    /\ gr_pc = "resolved"
    /\ gr_pc' = "returned"
    /\ UNCHANGED <<graphInputs, graphOrig, gr_X, gr_node_indices, gr_edge_indices, gr_edge_attr,
                   graphAnomaly, gr_failed, graphOthers>>

GraphNext ==
    \/ create_graph_relabel \/ drop_source_side \/ drop_target_side \/ append_link
    \/ add_prv_mask \/ bidirectional \/ resolve_anomaly \/ return_graph

SpecGraph == GraphInit /\ [][GraphNext]_vars

(***************************************************************************)
(* Properties of create_graph.                                             *)
(***************************************************************************)
\* a leak Value read as <prefix><digits>: the prefix is the leading run of
\* characters that are not digits
PrefixLen(v) ==
    CHOOSE k \in 0..Len(v) :
        /\ \A i \in 1..k : ~ IsDigit(v[i])
        /\ k = Len(v) \/ IsDigit(v[k + 1])
ValueDigits(v) == SubSeq(v, PrefixLen(v) + 1, Len(v))

\* <prefix><digits> with 1 <= digits <= E, E the edge count of the full table
WellFormedValue(v) ==
    /\ PrefixLen(v) >= 1
    /\ ValueDigits(v) # <<>>
    /\ \A i \in 1..Len(ValueDigits(v)) : IsDigit(ValueDigits(v)[i])
    /\ 1 <= Decimal(ValueDigits(v))
    /\ Decimal(ValueDigits(v)) <= Cols(gr_all_edge_indices)

\* the anomaly is the edge digits-1 of the full edge table the network gave
AnomalyResolved ==
    /\ gr_pc \in {"resolved", "returned"}
    /\ gr_anomalies_edge_idx = Decimal(ValueDigits(gr_value)) - 1
    /\ gr_anomalies_nodes_ids =
           <<gr_all_edge_indices[1][gr_anomalies_edge_idx + 1],
             gr_all_edge_indices[2][gr_anomalies_edge_idx + 1]>>

\* C6 as stated: a Value <prefix><digits> with 1 <= digits <= E resolves to
\* the zero-based index digits-1 of the full edge table (before pruning,
\* before the synthesized edge, before the reversed edges) and to that
\* column's (start, end) pair.
C6_AnyPrefix ==
    (gr_value # <<>> /\ WellFormedValue(gr_value)) => AnomalyResolved

\* C6 as amended: the same, for a prefix of exactly one character.
C6_OneCharPrefix ==
    (gr_value # <<>> /\ WellFormedValue(gr_value) /\ PrefixLen(gr_value) = 1) => AnomalyResolved

\* a two-digit Value resolved to an edge that source pruning removed
C6_Witness ==
    /\ gr_pc = "returned"
    /\ WellFormedValue(gr_value) /\ PrefixLen(gr_value) = 1
    /\ Len(ValueDigits(gr_value)) = 2
    /\ gr_anomalies_edge_idx = 4
    /\ gr_anomalies_nodes_ids = <<link_via, link_end>>
    /\ gr_anomalies_nodes_ids[1] >= Len(gr_node_indices)

\* C8: from source pruning on, edge_attr has as many edge columns as
\* edge_index, and every edge_index value of the returned graph is a kept
\* node.
C8_EdgeTablesAgree ==
    /\ gr_pc \in {"pruned_source", "pruned_target", "appended", "masked", "bi",
                  "resolved", "returned"} =>
           \A t \in 1..Len(gr_edge_attr) : Len(gr_edge_attr[t]) = Cols(gr_edge_indices)
    /\ gr_pc = "returned" =>
           \A r \in 1..2, e \in 1..Cols(gr_edge_indices) :
               0 <= gr_edge_indices[r][e] /\ gr_edge_indices[r][e] < Len(gr_node_indices)

\* the edges before the reversed copies are added; the last of them is
\* the synthesized link
Half == IF gr_pc = "masked" THEN Cols(gr_edge_indices) ELSE Cols(gr_edge_indices) \div 2
Unreversed(e) == IF e > Half THEN e - Half ELSE e
Flag(t, e) == gr_edge_attr[t][e][3]
Flagged == gr_pc \in {"masked", "bi", "resolved", "returned"}

\* C9 as stated: the flag channel is 1 on the synthesized link (and on its
\* reversed copy) and 0 on every other edge.
C9_FlagOnSynthesized ==
    Flagged =>
        \A t \in 1..Len(gr_edge_attr), e \in 1..Cols(gr_edge_indices) :
            Flag(t, e) = IF Unreversed(e) = Half THEN 1 ELSE 0

\* C9 as amended: the flag channel is 1 on exactly the (up to three) edges
\* that stand right before the synthesized link in the pruned table, and on
\* their reversed copies, and 0 on every other edge, the synthesized link
\* and its reversed copy included.
C9_FlagOnPrecedingThree ==
    Flagged =>
        \A t \in 1..Len(gr_edge_attr), e \in 1..Cols(gr_edge_indices) :
            Flag(t, e) = IF /\ Half - 3 <= Unreversed(e)
                            /\ Unreversed(e) <= Half - 1
                         THEN 1 ELSE 0

\* a returned graph of five edges and their copies: three flagged edges,
\* then the unflagged synthesized link
C9_Witness ==
    /\ gr_pc = "returned"
    /\ Half = 5
    /\ gr_edge_indices[1][Half] = link_start /\ gr_edge_indices[2][Half] = link_end
    /\ gr_edge_indices[1][2 * Half] = link_end /\ gr_edge_indices[2][2 * Half] = link_start
    /\ \A e \in {2, 3, 4, 7, 8, 9} : Flag(1, e) = 1
    /\ \A e \in {1, 5, 6, 10} : Flag(1, e) = 0

====
